---- MODULE Spec2Model ----
(***************************************************************************)
(* Model of the Argos DOOH analytics code:                                 *)
(*   ReportGenerator        (report-generator script, src/unnamed/part_000)*)
(*   MaintenanceCalculator  (src/src/templates/maintenance-calculator.js)  *)
(*                                                                         *)
(* Numbers.  JavaScript numbers are modelled as exact rationals <<n, d>>   *)
(* with d >= 0 in lowest terms; d = 0 encodes the non-finite values that   *)
(* a division produces: <<1,0>> = Infinity, <<-1,0>> = -Infinity and       *)
(* <<0,0>> = NaN.  Binary rounding of doubles is not modelled, and -0 is   *)
(* not told apart from 0.                                                  *)
(* A null numeric column reads as 0 in every place the code uses it        *)
(* (x || 0, x - null, null > 0), so numeric columns are plain integers.    *)
(*                                                                         *)
(* Time.  An instant is a whole number of days; the calendar is abstract:  *)
(* every month has DaysPerMonth days, so getFullYear()*12 + getMonth() of  *)
(* instant t is t \div DaysPerMonth.                                       *)
(***************************************************************************)
EXTENDS Integers, Sequences, FiniteSets, TLC

\* ------------------------------------------------------------------ bounds
MaxMonth == 5
MaxDay == 1
DaysPerMonth == 30
MaxMaint == 2

\* --------------------------------------------------------------- rationals
Abs(x) == IF x < 0 THEN 0 - x ELSE x

Sign(x) == IF x < 0 THEN 0 - 1 ELSE IF x > 0 THEN 1 ELSE 0

RECURSIVE GCD(_, _)
GCD(a, b) == IF b = 0 THEN a ELSE GCD(b, a % b)

\* n / d of two JavaScript numbers that hold the integers n and d
Quot(n, d) ==
    IF d = 0 THEN <<Sign(n), 0>>
    ELSE LET g == GCD(Abs(n), Abs(d))
             s == Sign(d)
         IN  <<(s * n) \div g, (s * d) \div g>>

Int2R(n) == <<n, 1>>

IsNaN(r) == r = <<0, 0>>

\* a / b of two rationals
RDiv(a, b) ==
    IF IsNaN(a) \/ IsNaN(b) THEN <<0, 0>>
    ELSE IF a[2] = 0 /\ b[2] = 0 THEN <<0, 0>>
    ELSE IF a[2] = 0 THEN <<a[1] * (IF b[1] < 0 THEN 0 - 1 ELSE 1), 0>>
    ELSE IF b[2] = 0 THEN <<0, 1>>
    ELSE Quot(a[1] * b[2], a[2] * b[1])

RSub(a, b) ==
    IF IsNaN(a) \/ IsNaN(b) THEN <<0, 0>>
    ELSE IF a[2] = 0 /\ b[2] = 0 THEN (IF a[1] = b[1] THEN <<0, 0>> ELSE a)
    ELSE IF a[2] = 0 THEN a
    ELSE IF b[2] = 0 THEN <<0 - b[1], 0>>
    ELSE Quot(a[1] * b[2] - b[1] * a[2], a[2] * b[2])

RMul(a, b) ==
    IF IsNaN(a) \/ IsNaN(b) THEN <<0, 0>>
    ELSE IF a[2] = 0 \/ b[2] = 0
         THEN (IF a[1] = 0 \/ b[1] = 0 THEN <<0, 0>> ELSE <<Sign(a[1]) * Sign(b[1]), 0>>)
    ELSE Quot(a[1] * b[1], a[2] * b[2])

\* a <= b as JavaScript compares numbers: false as soon as one side is NaN
RLeq(a, b) ==
    IF IsNaN(a) \/ IsNaN(b) THEN FALSE
    ELSE IF a[2] = 0 /\ b[2] = 0 THEN a[1] <= b[1]
    ELSE IF a[2] = 0 THEN a[1] < 0
    ELSE IF b[2] = 0 THEN b[1] > 0
    ELSE a[1] * b[2] <= b[1] * a[2]

RGt(a, b) ==
    IF IsNaN(a) \/ IsNaN(b) THEN FALSE ELSE ~RLeq(a, b)

\* Math.ceil(n / d) and Math.floor(n / d) for d > 0
CeilDiv(n, d) == 0 - ((0 - n) \div d)

FloorR(r) == r[1] \div r[2]

\* Number.prototype.toFixed(1): the value rounded to tenths, ties away from
\* zero; a non-finite value prints as its name.
toFixed1(r) ==
    IF r[2] = 0
    THEN [txt |-> IF r[1] > 0 THEN "Infinity" ELSE IF r[1] < 0 THEN "-Infinity" ELSE "NaN",
          tenths |-> 0]
    ELSE [txt |-> "fixed",
          tenths |-> Sign(r[1]) * ((2 * 10 * Abs(r[1]) + r[2]) \div (2 * r[2]))]

\* x || 0 on a number
OrZeroR(r) == IF IsNaN(r) \/ r[1] = 0 THEN <<0, 1>> ELSE r

\* ------------------------------------------------------- the capex blob
\* A JSON value stored under a capex category.
\*   num: the number v        str: a string that spells the number v
\*   txt: any other non-empty string     null, bool (v = 1 true, 0 false)
\*   obj: a nested object
JNum(v) == [t |-> "num", v |-> v]
JStr(v) == [t |-> "str", v |-> v]
JTxt == [t |-> "txt", v |-> 0]
JNull == [t |-> "null", v |-> 0]
JBool(v) == [t |-> "bool", v |-> v]
JObj == [t |-> "obj", v |-> 0]

\* a reduce that adds only the values that are already numbers
NumberOrZero_numbersOnly(jv) == IF jv.t = "num" THEN jv.v ELSE 0

\* Number(val) || 0
NumberOrZero(jv) ==
    CASE jv.t = "num" -> jv.v
      [] jv.t = "str" -> jv.v
      [] jv.t = "bool" -> jv.v
      [] OTHER -> 0

\* val || 0 for a category that may be absent from the object
PropOrZero(obj, k) ==
    IF k \notin DOMAIN obj THEN JNum(0)
    ELSE LET jv == obj[k]
         IN  IF \/ jv.t = "null"
                \/ (jv.t = "num" /\ jv.v = 0)
                \/ (jv.t = "bool" /\ jv.v = 0)
             THEN JNum(0) ELSE jv

\* The text of pantallas.capex_data:
\*   absent    null, undefined or ''      (the code then uses {})
\*   malformed text JSON.parse rejects    (also a column already holding an object)
\*   jsonnull  the text 'null'
\*   number    the text of a JSON number
\*   object    the text of a JSON object, obj maps its keys to their values
EmptyObj == [k \in {} |-> JNull]
Blob(kind, obj) == [kind |-> kind, obj |-> obj]
BlobAbsent == Blob("absent", EmptyObj)
BlobMalformed == Blob("malformed", EmptyObj)
BlobJsonNull == Blob("jsonnull", EmptyObj)
BlobNumber == Blob("number", EmptyObj)
BlobObject(obj) == Blob("object", obj)

\* Object.values(capex).reduce((sum, val) => sum + (Number(val) || 0), 0)
RECURSIVE SumValues(_, _)
SumValues(obj, keys) ==
    IF keys = {} THEN 0
    ELSE LET k == CHOOSE x \in keys : TRUE
         IN  NumberOrZero(obj[k]) + SumValues(obj, keys \ {k})

\* JSON.parse of the blob throws a SyntaxError on malformed text
JSONparseThrows(blob) == blob.kind = "malformed"

\* Object.values(x) throws a TypeError on null, and so does reading a
\* property of null
IsNullValue(blob) == blob.kind = "jsonnull"

\* MaintenanceCalculator.calculateCapexTotal
calculateCapexTotal(screenData) ==
    LET blob == screenData.capex_data
    IN  IF JSONparseThrows(blob) THEN 0
        ELSE IF IsNullValue(blob) THEN 0
        ELSE SumValues(blob.obj, DOMAIN blob.obj)

\* ReportGenerator.calculateCapex; the catch branch returns only {total: 0},
\* its four cost fields are then undefined (hasCosts = FALSE)
calculateCapex(screen) ==
    LET blob == screen.capex_data
    IN  IF JSONparseThrows(blob) \/ IsNullValue(blob)
        THEN [hasCosts |-> FALSE,
              screenCost |-> JNum(0), installationCost |-> JNum(0),
              electricalCost |-> JNum(0), structureCost |-> JNum(0),
              total |-> 0]
        ELSE [hasCosts |-> TRUE,
              screenCost |-> PropOrZero(blob.obj, "screen"),
              installationCost |-> PropOrZero(blob.obj, "installation"),
              electricalCost |-> PropOrZero(blob.obj, "electrical"),
              structureCost |-> PropOrZero(blob.obj, "structure"),
              total |-> SumValues(blob.obj, DOMAIN blob.obj)]

\* ------------------------------------------------------------ table rows
\* pantallas.uptime is text; num is the decimal prefix parseFloat reads from
\* it and numeric says whether there is one (txt = "" is a null column)
Uptime(txt, numeric, num) == [txt |-> txt, numeric |-> numeric, num |-> num]

\* parseFloat(screen.uptime) || 0
parseFloatOrZero(u) == IF u.numeric THEN u.num ELSE 0

\* screen.uptime || '0%'
uptimeOrDefault(u) == IF u.txt = "" THEN "0%" ELSE u.txt

\* a row of pantallas
ScreenRow(id, rev, exp, blob, roi, uptime, installed) ==
    [id |-> id, nombre |-> "Pantalla", ubicacion |-> "Ubicacion", estado |-> "activa",
     ingresos_mensuales |-> rev, gastos_mensuales |-> exp, capex_data |-> blob,
     roi |-> roi, uptime |-> uptime, fecha_instalacion |-> installed, updated_at |-> 0]

monthlyProfitOf(screen) == screen.ingresos_mensuales - screen.gastos_mensuales

\* getFullYear() * 12 + getMonth() of an instant
MonthIndex(t) == t \div DaysPerMonth

\* ------------------------------------------------- ReportGenerator (pure)
\* the 24-month threshold taken as exclusive
roiRecommendation_strict(roiMonths) ==
    IF RLeq(roiMonths, Int2R(24)) /\ roiMonths # Int2R(24)
    THEN "Excelente inversion"
    ELSE "Evaluar mejora de rentabilidad"

\* roiMonths <= 24 ? 'Excelente inversion' : 'Evaluar mejora de rentabilidad'
roiRecommendation(roiMonths) ==
    IF RLeq(roiMonths, Int2R(24))
    THEN "Excelente inversion"
    ELSE "Evaluar mejora de rentabilidad"

\* ReportGenerator.generateROIAnalysis
generateROIAnalysis(screen) ==
    LET capex == calculateCapex(screen).total
        monthlyProfit == monthlyProfitOf(screen)
    IN  IF monthlyProfit <= 0 \/ capex <= 0
        THEN [roiMonths |-> [txt |-> "inf", tenths |-> 0],
              roiPercentage |-> [txt |-> "0%", tenths |-> 0],
              paybackPeriod |-> [txt |-> "No aplica", years |-> 0, months |-> 0],
              recommendation |-> "Pantalla no rentable"]
        ELSE LET roiMonths == Quot(capex, monthlyProfit)
                 roiPercentage == Quot(monthlyProfit * 100 * 12, capex)
             IN  [roiMonths |-> toFixed1(roiMonths),
                  roiPercentage |-> [txt |-> "fixed%", tenths |-> toFixed1(roiPercentage).tenths],
                  paybackPeriod |-> [txt |-> "anos meses",
                                     years |-> CeilDiv(capex, 12 * monthlyProfit),
                                     months |-> CeilDiv(capex % (12 * monthlyProfit), monthlyProfit)],
                  recommendation |-> roiRecommendation(roiMonths)]

\* a break-even that rounds the month count down
calculateBreakEven_floor(screen, today) ==
    LET capex == calculateCapex(screen).total
        monthlyProfit == monthlyProfitOf(screen)
    IN  IF monthlyProfit <= 0
        THEN [na |-> TRUE, months |-> 0, date |-> 0, status |-> "No aplica - Sin ganancias"]
        ELSE LET months == capex \div monthlyProfit
             IN  [na |-> FALSE, months |-> months,
                  date |-> today + months * DaysPerMonth,
                  status |-> IF months <= 24 THEN "Optimo" ELSE "Extendido"]

\* ReportGenerator.calculateBreakEven; na = TRUE stands for the string
\* 'No aplica - Sin ganancias', date is the instant today + months
calculateBreakEven(screen, today) ==
    LET capex == calculateCapex(screen).total
        monthlyProfit == monthlyProfitOf(screen)
    IN  IF monthlyProfit <= 0
        THEN [na |-> TRUE, months |-> 0, date |-> 0, status |-> "No aplica - Sin ganancias"]
        ELSE LET months == CeilDiv(capex, monthlyProfit)
             IN  [na |-> FALSE, months |-> months,
                  date |-> today + months * DaysPerMonth,
                  status |-> IF months <= 24 THEN "Optimo" ELSE "Extendido"]

Recommendation(priority, title, n, action) ==
    [priority |-> priority, title |-> title, n |-> n, action |-> action]

\* the ROI rule of generateRecommendations
roiRule(screen) ==
    IF RGt(OrZeroR(screen.roi), Int2R(24))
    THEN << Recommendation("Alta", "Optimizar Rentabilidad", 0,
                "Revisar contratos publicitarios y costos operativos") >>
    ELSE << >>

\* the maintenance rule with the age taken in days instead of calendar months
maintenanceRule_days(maintenances, today) ==
    IF maintenances # << >> /\ today - maintenances[1].fecha > 3 * DaysPerMonth
    THEN << Recommendation("Media", "Programar Mantenimiento Preventivo",
                MonthIndex(today) - MonthIndex(maintenances[1].fecha),
                "Agendar mantenimiento preventivo para el proximo mes") >>
    ELSE << >>

\* the maintenance rule of generateRecommendations; n is the monthsSince
\* interpolated into the description
maintenanceRule(maintenances, today) ==
    LET monthsSince == IF maintenances = << >> THEN 0
                       ELSE MonthIndex(today) - MonthIndex(maintenances[1].fecha)
    IN  IF maintenances # << >> /\ monthsSince > 3
        THEN << Recommendation("Media", "Programar Mantenimiento Preventivo", monthsSince,
                    "Agendar mantenimiento preventivo para el proximo mes") >>
        ELSE << >>

\* the uptime rule of generateRecommendations; n is the uptime interpolated
\* into the description
uptimeRule(screen) ==
    LET uptime == parseFloatOrZero(screen.uptime)
    IN  IF uptime < 95
        THEN << Recommendation("Alta", "Mejorar Disponibilidad", uptime,
                    "Investigar causas de desconexion y mejorar infraestructura") >>
        ELSE << >>

fallbackRecommendation ==
    << Recommendation("Baja", "Mantener Estrategia Actual", 0,
           "Continuar con monitoreo y mantenimientos preventivos programados") >>

\* the rules chained with else-if, so that at most one can fire
generateRecommendations_exclusive(screen, maintenances, today) ==
    IF roiRule(screen) # << >> THEN roiRule(screen)
    ELSE IF maintenanceRule(maintenances, today) # << >>
         THEN maintenanceRule(maintenances, today)
    ELSE IF uptimeRule(screen) # << >> THEN uptimeRule(screen)
    ELSE fallbackRecommendation

\* ReportGenerator.generateRecommendations
generateRecommendations(screen, maintenances, today) ==
    LET recommendations ==
            roiRule(screen) \o maintenanceRule(maintenances, today) \o uptimeRule(screen)
    IN  IF Len(recommendations) = 0 THEN fallbackRecommendation ELSE recommendations

RECURSIVE SumField(_, _)
SumField(rows, f) == IF rows = << >> THEN 0 ELSE Head(rows)[f] + SumField(Tail(rows), f)

RECURSIVE CountTipo(_, _)
CountTipo(rows, tipo) ==
    IF rows = << >> THEN 0
    ELSE (IF Head(rows).tipo = tipo THEN 1 ELSE 0) + CountTipo(Tail(rows), tipo)

\* ReportGenerator.calculateDaysOnline
calculateDaysOnline(screen, maintenances, today) ==
    LET totalDays == today - screen.fecha_instalacion
        maintenanceHours == SumField(maintenances, "duracion_horas")
    IN  FloorR(RSub(Int2R(totalDays), Quot(maintenanceHours, 24)))

\* ReportGenerator.calculateStats
calculateStats(screen, maintenances, expenses, today) ==
    LET totalMaintenanceCost == SumField(maintenances, "costo_total")
        totalMonthlyExpenses == SumField(expenses, "total_mensual")
        profitMargin == IF screen.ingresos_mensuales > 0
                        THEN Quot(monthlyProfitOf(screen) * 100, screen.ingresos_mensuales)
                        ELSE Int2R(0)
    IN  [totalMaintenanceCost |-> totalMaintenanceCost,
         avgMaintenanceCost |-> IF Len(maintenances) > 0
                                THEN Quot(totalMaintenanceCost, Len(maintenances)) ELSE Int2R(0),
         totalMonthlyExpenses |-> totalMonthlyExpenses,
         avgMonthlyExpenses |-> IF Len(expenses) > 0
                                THEN Quot(totalMonthlyExpenses, Len(expenses)) ELSE Int2R(0),
         roiMonths |-> OrZeroR(screen.roi),
         profitMargin |-> toFixed1(profitMargin),
         uptime |-> uptimeOrDefault(screen.uptime),
         daysOnline |-> calculateDaysOnline(screen, maintenances, today)]

\* The methods the class ReportGenerator defines.  createPDFData calls
\* three more, this.generateRevenueTrendData, generateMaintenanceFrequencyData
\* and generateCostBreakdownData, which the class does not define: calling
\* one evaluates undefined(...) and throws a TypeError.
ReportGeneratorMethods ==
    {"generateScreenReport", "getScreenData", "getScreenMaintenances",
     "getScreenExpenses", "calculateStats", "calculateDaysOnline", "createPDFData",
     "calculateCapex", "generateROIAnalysis", "calculateBreakEven",
     "generateRecommendations", "generatePDF"}

ChartMethods ==
    {"generateRevenueTrendData", "generateMaintenanceFrequencyData",
     "generateCostBreakdownData"}

\* The three chart series as the specification describes them (section 4.2,
\* step 5); the source holds no code for them.
generateRevenueTrendData(expenses) ==
    [i \in 1..Len(expenses) |-> [mes |-> expenses[i].mes, total |-> expenses[i].total_mensual]]

generateMaintenanceFrequencyData(maintenances) ==
    [preventivo |-> CountTipo(maintenances, "preventivo"),
     correctivo |-> CountTipo(maintenances, "correctivo")]

generateCostBreakdownData(screen, expenses) == calculateCapex(screen)

\* `$${x.toLocaleString()}`: the number in the runtime's default locale
Money(x) == [fmt |-> "$locale", v |-> x]

\* new Date().toLocaleDateString('es-MX', ...): the day of the instant
DateText(t) == [fmt |-> "es-MX", day |-> t]

\* The properties of the object literal in createPDFData that are evaluated
\* before `charts`, in source order.
EvaluatedBeforeCharts(screen, maintenances, expenses, today) ==
    LET rev == screen.ingresos_mensuales
        exp == screen.gastos_mensuales
        totalCost == SumField(maintenances, "costo_total")
    IN  [header |->
            [title |-> <<"REPORTE DE PANTALLA: ", screen.nombre>>,
             subtitle |-> <<"ID: ", screen.id, " | Ubicacion: ", screen.ubicacion>>,
             date |-> DateText(today),
             logo |-> "https://your-logo-url.com/logo.png"],
         executiveSummary |->
            [roi |-> <<OrZeroR(screen.roi), " meses">>,
             monthlyRevenue |-> Money(rev),
             monthlyExpenses |-> Money(exp),
             netProfit |-> Money(rev - exp),
             profitMargin |->
                 [txt |-> "fixed%",
                  tenths |-> toFixed1(Quot((rev - exp) * 100,
                                           IF rev = 0 THEN 1 ELSE rev)).tenths],
             uptime |-> uptimeOrDefault(screen.uptime),
             status |-> IF screen.estado = "" THEN "desconocido" ELSE screen.estado],
         financialAnalysis |->
            [capex |-> calculateCapex(screen),
             opex |-> [monthly |-> exp, annual |-> exp * 12],
             roiAnalysis |-> generateROIAnalysis(screen),
             breakEvenPoint |-> calculateBreakEven(screen, today)],
         maintenanceHistory |->
            [totalMaintenances |-> Len(maintenances),
             preventive |-> CountTipo(maintenances, "preventivo"),
             corrective |-> CountTipo(maintenances, "correctivo"),
             totalCost |-> totalCost,
             avgCostPerMaintenance |-> IF Len(maintenances) > 0
                                       THEN Quot(totalCost, Len(maintenances))
                                       ELSE Int2R(0),
             details |-> [i \in 1..Len(maintenances) |->
                            [date |-> maintenances[i].fecha,
                             type |-> maintenances[i].tipo,
                             hours |-> maintenances[i].horas,
                             cost |-> maintenances[i].costo_total,
                             description |-> maintenances[i].descripcion]]],
         strategicRecommendations |-> generateRecommendations(screen, maintenances, today)]

\* ReportGenerator.createPDFData: threw = "" and doc the whole document, or
\* threw = "TypeError" and doc the properties evaluated before the throw
\* (they are discarded with the exception).
createPDFData(screen, maintenances, expenses, today) ==
    LET evaluated == EvaluatedBeforeCharts(screen, maintenances, expenses, today)
    IN  IF ChartMethods \subseteq ReportGeneratorMethods
        THEN [threw |-> "",
              doc |-> [charts |->
                          [revenueTrend |-> generateRevenueTrendData(expenses),
                           maintenanceFrequency |-> generateMaintenanceFrequencyData(maintenances),
                           costBreakdown |-> generateCostBreakdownData(screen, expenses)],
                       footer |->
                          [generatedBy |-> "Sistema Argos DOOH",
                           contact |-> "contacto@argosdooh.com",
                           disclaimer |-> "Informacion confidencial - Uso exclusivo interno"]]
                      @@ evaluated]
        ELSE [threw |-> "TypeError", doc |-> evaluated]

\* ------------------------------------------- MaintenanceCalculator (pure)
\* this.hourlyRates, this.materialCosts, this.additionalCosts
hourlyRates ==
    [tecnico_regular |-> 120, tecnico_especializado |-> 180,
     ingeniero |-> 250, contratista |-> 150]

materialCosts ==
    [dioxido_titanio |-> 45, modulo_led |-> 250, fuente_poder |-> 180,
     cable_fat |-> 45, novastar_mctrl300 |-> 350, ventilador |-> 85,
     tarjeta_control |-> 120]

additionalCosts ==
    [traslado |-> 150, herramienta_especial |-> 75, material_consumible |-> 30]

\* The values the cost computation can hold: a number JNum(n), NaN, a text
\* that is not a number (JTxt), a member inherited from Object.prototype
\* (a function or the prototype object) and undefined.
JNaN == [t |-> "nan", v |-> 0]
JFn == [t |-> "fn", v |-> 0]
JUndef == [t |-> "undef", v |-> 0]

\* the tables are plain object literals: a key that is not their own is
\* looked up in Object.prototype
InheritedKeys == {"constructor", "toString", "__proto__"}

\* table[key]
Lookup(table, key) ==
    IF key \in DOMAIN table THEN JNum(table[key])
    ELSE IF key \in InheritedKeys THEN JFn
    ELSE JUndef

Truthy(x) == x.t \in {"fn", "txt"} \/ (x.t = "num" /\ x.v # 0)

\* a * b: both operands are converted to numbers, a function gives NaN
JSMul(a, b) == IF a.t = "num" /\ b.t = "num" THEN JNum(a.v * b.v) ELSE JNaN

\* a + b: a function or a text operand makes it a text concatenation
JSAdd(a, b) ==
    IF a.t \in {"fn", "txt"} \/ b.t \in {"fn", "txt"} THEN JTxt
    ELSE IF a.t = "num" /\ b.t = "num" THEN JNum(a.v + b.v)
    ELSE JNaN

\* table[key] || dflt
LookupOr(table, key, dflt) ==
    LET x == Lookup(table, key)
    IN  IF Truthy(x) THEN x ELSE JNum(dflt)

\* a consumed material; given = FALSE when the quantity is omitted
Material(type, given, quantity) == [type |-> type, given |-> given, quantity |-> quantity]

\* material.quantity || 1
quantityOrOne(m) == IF m.given /\ m.quantity # 0 THEN m.quantity ELSE 1

\* (this.materialCosts[m.type] || 0) * (m.quantity || 1)
materialCost(m) == JSMul(LookupOr(materialCosts, m.type, 0), JNum(quantityOrOne(m)))

RECURSIVE materialsSum(_)
materialsSum(materials) ==
    IF materials = << >> THEN JNum(0)
    ELSE JSAdd(materialCost(Head(materials)), materialsSum(Tail(materials)))

RECURSIVE servicesSum(_)
servicesSum(services) ==
    IF services = << >> THEN JNum(0)
    ELSE JSAdd(LookupOr(additionalCosts, Head(services), 0), servicesSum(Tail(services)))

\* a fee per started block of 50 counted by rounding to the nearest block
travelCostOf_round(travelDistance) ==
    IF travelDistance > 0
    THEN ((travelDistance + 25) \div 50) * additionalCosts.traslado
    ELSE 0

travelCostOf(travelDistance) ==
    IF travelDistance > 0
    THEN CeilDiv(travelDistance, 50) * additionalCosts.traslado
    ELSE 0

\* MaintenanceCalculator.calculateMaintenanceCost; technicianType = "" is an
\* omitted category (the destructuring default and the || fallback agree)
calculateMaintenanceCost(data) ==
    LET hourlyRate == LookupOr(hourlyRates, data.technicianType, hourlyRates.tecnico_regular)
        laborCost == JSMul(JNum(data.hours), hourlyRate)
        travelCost == JNum(travelCostOf(data.travelDistance))
        total == JSAdd(JSAdd(JSAdd(laborCost, materialsSum(data.materials)),
                             servicesSum(data.additionalServices)),
                       travelCost)
    IN  [laborCost |-> laborCost,
         materialsCost |-> materialsSum(data.materials),
         additionalCosts |-> servicesSum(data.additionalServices),
         travelCost |-> travelCost,
         totalCost |-> total,
         hourlyRate |-> hourlyRate]

\* MaintenanceCalculator.getROIRecommendation
getROIRecommendation(roi) ==
    IF RLeq(roi, Int2R(12)) THEN "Excelente - Mantenimiento altamente rentable"
    ELSE IF RLeq(roi, Int2R(18)) THEN "Bueno - Impacto positivo en ROI"
    ELSE IF RLeq(roi, Int2R(24)) THEN "Aceptable - Dentro de parametros esperados"
    ELSE IF RLeq(roi, Int2R(36)) THEN "Regular - Evaluar necesidad del mantenimiento"
    ELSE "Critico - Reconsiderar la inversion"

\* MaintenanceCalculator.calculateROIImpact
calculateROIImpact(screenData, maintenanceCost) ==
    LET capex == calculateCapexTotal(screenData)
        monthlyProfit == monthlyProfitOf(screenData)
        roiBefore == Quot(capex, monthlyProfit)
        adjustedCapex == capex + maintenanceCost
        roiAfter == Quot(adjustedCapex, monthlyProfit)
    IN  [roiBefore |-> toFixed1(roiBefore),
         roiAfter |-> toFixed1(roiAfter),
         impact |-> toFixed1(RMul(RDiv(RSub(roiAfter, roiBefore), roiBefore), Int2R(100))),
         monthsToRecover |-> toFixed1(Quot(maintenanceCost, monthlyProfit)),
         recommendation |-> getROIRecommendation(roiAfter)]

\* ------------------------------------------------------------------ state
VARIABLES
    pantallas,       \* table pantallas: id -> row, for the ids that exist
    mantenimientos,  \* table mantenimientos: rows in insertion order
    gastos,          \* table gastos_mensuales: rows, newest month first
    now,             \* the instant new Date() last returned
    clientUp,        \* window.supabaseClient is initialised
    rep,             \* the generateScreenReport request in progress
    sv,              \* the saveMaintenanceToDB requests, by caller
    args,            \* the records a page holds for direct method calls
    call             \* the last direct call of a synchronous method

vars == <<pantallas, mantenimientos, gastos, now, clientUp, rep, sv, args, call>>

\* --------------------------------------------------------------- inputs
Instants == {m * DaysPerMonth + d : m \in 0..MaxMonth, d \in 0..MaxDay}

\* new Date() never runs backwards
LaterInstants == {t \in Instants : t >= now}

MaintDates == {0, DaysPerMonth - 1, DaysPerMonth}

\* JSON.stringify(x)
JSONText(x) == [json |-> x]

\* a row of mantenimientos with every column saveMaintenanceToDB writes, and
\* duracion_horas, a column it never sets (null reads as 0)
FullMaintRow(id, fecha, tipo, horas, tecnico, materiales, servicios, distancia, manoObra, costoMateriales, adicional, total, tasa, created, duracion) ==
    [pantalla_id |-> id, fecha |-> fecha, tipo |-> tipo, horas |-> horas,
     tipo_tecnico |-> tecnico, descripcion |-> "",
     materiales |-> JSONText(materiales), servicios_adicionales |-> JSONText(servicios),
     distancia_traslado |-> distancia, costo_mano_obra |-> manoObra,
     costo_materiales |-> costoMateriales, costo_adicional |-> adicional,
     costo_total |-> total, tasa_horaria |-> tasa,
     created_at |-> created, updated_at |-> created, duracion_horas |-> duracion]

\* a row that was in the table before, of which only some columns matter
MaintRow(id, fecha, tipo, horas, costo, duracion) ==
    FullMaintRow(id, fecha, tipo, horas, "tecnico_regular", << >>, << >>, 0,
                 costo, 0, 0, costo, 120, fecha, duracion)

ExpenseRow(id, mes, total) == [pantalla_id |-> id, mes |-> mes, total_mensual |-> total]

IsSortedDesc(rows) == \A i \in 1..(Len(rows) - 1) : rows[i].fecha >= rows[i + 1].fecha

SeqsUpTo(S, n) == UNION {[1..k -> S] : k \in 0..n}

StoredMaintRows ==
    {MaintRow(1, f, t, 2, IF t = "preventivo" THEN 240 ELSE 0, IF t = "preventivo" THEN 0 ELSE 24) :
        f \in MaintDates, t \in {"preventivo", "correctivo"}}

\* what getScreenMaintenances can return: newest first
MaintLists == {ms \in SeqsUpTo(StoredMaintRows, MaxMaint) : IsSortedDesc(ms)}

ExpenseLists ==
    {<< >>, <<ExpenseRow(1, 1, 6)>>, <<ExpenseRow(1, 1, 6), ExpenseRow(1, 0, 4)>>}

JVals == {JNum(96), JNum(100), JNum(0 - 5), JStr(4), JTxt, JNull, JBool(1), JObj}

CapexKeys == {"screen", "installation", "extra"}

CapexObjects == UNION {[ks -> JVals] : ks \in SUBSET CapexKeys}

CapexBlobs ==
    {BlobAbsent, BlobMalformed, BlobJsonNull, BlobNumber} \cup {BlobObject(o) : o \in CapexObjects}

Revenues == {0, 4, 10}
Expenses == {0, 4, 6}
Rois == {Int2R(0), Int2R(24), Quot(49, 2), Int2R(30)}
Uptimes ==
    {Uptime("", FALSE, 0), Uptime("n/a", FALSE, 0), Uptime("90%", TRUE, 90),
     Uptime("95%", TRUE, 95), Uptime("98%", TRUE, 98)}
MaintenanceCosts == {0, 8, 500}

DefaultBlob == BlobObject([k \in {"screen"} |-> JNum(96)])
DefaultUptime == Uptime("98%", TRUE, 98)

\* the argument of calculateMaintenanceCost; technicianType = "" is omitted
CostData(hours, technicianType, materials, additionalServices, travelDistance) ==
    [hours |-> hours, technicianType |-> technicianType, materials |-> materials,
     additionalServices |-> additionalServices, travelDistance |-> travelDistance]

NoCostData == CostData(0, "", << >>, << >>, 0)

Args(kind, screen, maintenances, expenses, cost) ==
    [kind |-> kind, screen |-> screen, maintenances |-> maintenances,
     expenses |-> expenses, cost |-> cost, data |-> NoCostData]

\* arguments that differ in what the money computations read
FinanceArgs ==
    {Args("finance", ScreenRow(1, r, e, b, Int2R(0), DefaultUptime, 0), << >>, << >>, c) :
        r \in Revenues, e \in Expenses, b \in CapexBlobs, c \in MaintenanceCosts}

BreakEvenBlobs ==
    {BlobAbsent, BlobMalformed}
    \cup {BlobObject(o) : o \in [{"screen", "installation"} -> JVals]}

\* arguments that differ in what the break-even computation reads
BreakEvenArgs ==
    {Args("breakeven", ScreenRow(1, r, e, b, Int2R(0), DefaultUptime, 0), << >>, << >>, 0) :
        r \in Revenues, e \in Expenses, b \in BreakEvenBlobs}

\* arguments that differ in what the recommendation rules read
RuleArgs ==
    {Args("rules", ScreenRow(1, 10, 6, DefaultBlob, roi, u, 0), ms, << >>, 0) :
        roi \in Rois, u \in Uptimes, ms \in MaintLists}

\* arguments that differ in what the summary figures read
ReportArgs ==
    {Args("report", ScreenRow(1, r, e, DefaultBlob, Int2R(0), DefaultUptime, 0), ms, es, 0) :
        r \in Revenues, e \in Expenses, ms \in MaintLists, es \in ExpenseLists}

\* ------------------------------------------------ requests at rest
NoScreen == ScreenRow(0, 0, 0, BlobAbsent, Int2R(0), Uptime("", FALSE, 0), 0)

NoArgs == Args("none", NoScreen, << >>, << >>, 0)

TechnicianTypes == {"", "ingeniero", "pasante", "constructor"}

MaterialLists ==
    {<< >>,
     <<Material("modulo_led", TRUE, 2)>>,
     <<Material("modulo_led", TRUE, 0)>>,
     <<Material("ventilador", FALSE, 0)>>,
     <<Material("tornillo", TRUE, 3)>>,
     <<Material("toString", TRUE, 1)>>,
     <<Material("cable_fat", TRUE, 3), Material("tornillo", FALSE, 0),
       Material("ventilador", FALSE, 0)>>}

ServiceLists ==
    {<< >>, <<"traslado">>, <<"limpieza">>, <<"constructor">>,
     <<"herramienta_especial", "limpieza", "material_consumible">>}

TravelDistances == {0 - 10, 0, 1, 50, 51, 100, 101}

\* arguments of calculateMaintenanceCost
CostArgs ==
    {[NoArgs EXCEPT !.kind = "cost", !.data = CostData(h, tt, ms, ss, d)] :
        h \in {0, 2}, tt \in TechnicianTypes, ms \in MaterialLists,
        ss \in ServiceLists, d \in TravelDistances}

NoResult == [success |-> FALSE, pdfUrl |-> 0, stats |-> 0]

\* lookup is what the store replied to the asset lookup; invoked and renders
\* record which steps of the request ran
RepIdle ==
    [pc |-> "idle", screenId |-> 0, lookup |-> "", screen |-> NoScreen,
     maintenances |-> << >>, expenses |-> << >>, invoked |-> {}, renders |-> 0,
     error |-> "", result |-> NoResult]

NoCall == [fn |-> "none", today |-> 0, res |-> 0]

Call(fn, today, res) == [fn |-> fn, today |-> today, res |-> res]

\* -------------------------------- direct calls of the synchronous methods
StoreQuiet ==
    /\ pantallas = << >>
    /\ mantenimientos = << >>
    /\ gastos = << >>
    /\ now = 0
    /\ clientUp = TRUE
    /\ rep = RepIdle
    /\ sv = << >>

InitCalc ==
    /\ StoreQuiet
    /\ args \in FinanceArgs \cup RuleArgs \cup ReportArgs \cup BreakEvenArgs \cup CostArgs
    /\ call = NoCall

CalcFrame == UNCHANGED <<pantallas, mantenimientos, gastos, clientUp, rep, sv, args>>

CallCalculateCapexTotal ==
    /\ args.kind = "finance"
    /\ call' = Call("calculateCapexTotal", now, calculateCapexTotal(args.screen))
    /\ UNCHANGED now
    /\ CalcFrame

CallCalculateCapex ==
    /\ args.kind = "finance"
    /\ call' = Call("calculateCapex", now, calculateCapex(args.screen))
    /\ UNCHANGED now
    /\ CalcFrame

CallGenerateROIAnalysis ==
    /\ args.kind = "finance"
    /\ call' = Call("generateROIAnalysis", now, generateROIAnalysis(args.screen))
    /\ UNCHANGED now
    /\ CalcFrame

CallCalculateROIImpact ==
    /\ args.kind = "finance"
    /\ call' = Call("calculateROIImpact", now, calculateROIImpact(args.screen, args.cost))
    /\ UNCHANGED now
    /\ CalcFrame

CallCalculateMaintenanceCost ==
    /\ args.kind = "cost"
    /\ call' = Call("calculateMaintenanceCost", now, calculateMaintenanceCost(args.data))
    /\ UNCHANGED now
    /\ CalcFrame

\* the methods below read the clock: new Date() returns some later instant
CallCalculateBreakEven ==
    /\ args.kind = "breakeven"
    /\ \E t \in LaterInstants :
         /\ now' = t
         /\ call' = Call("calculateBreakEven", t, calculateBreakEven(args.screen, t))
    /\ CalcFrame

CallGenerateRecommendations ==
    /\ args.kind = "rules"
    /\ \E t \in LaterInstants :
         /\ now' = t
         /\ call' = Call("generateRecommendations", t,
                         generateRecommendations(args.screen, args.maintenances, t))
    /\ CalcFrame

CallCalculateStats ==
    /\ args.kind = "report"
    /\ \E t \in LaterInstants :
         /\ now' = t
         /\ call' = Call("calculateStats", t,
                         calculateStats(args.screen, args.maintenances, args.expenses, t))
    /\ CalcFrame

CallCreatePDFData ==
    /\ args.kind = "report"
    /\ \E t \in LaterInstants :
         /\ now' = t
         /\ call' = Call("createPDFData", t,
                         createPDFData(args.screen, args.maintenances, args.expenses, t))
    /\ CalcFrame

NextCalc ==
    \/ CallCalculateCapexTotal
    \/ CallCalculateCapex
    \/ CallGenerateROIAnalysis
    \/ CallCalculateROIImpact
    \/ CallCalculateMaintenanceCost
    \/ CallCalculateBreakEven
    \/ CallGenerateRecommendations
    \/ CallCalculateStats
    \/ CallCreatePDFData

SpecCalc == InitCalc /\ [][NextCalc]_vars

\* ---------------------------------------------- generateScreenReport
\* The reply { data, error } of a store query.
Reply(hasData, data, error) == [hasData |-> hasData, data |-> data, error |-> error]

\* What pantallas can reply to select('*').eq('id', id).single(): the row,
\* or an error (the store failed, or no row matched), or neither.
ScreenReplies(id) ==
    (IF id \in DOMAIN pantallas THEN {Reply(TRUE, pantallas[id], "")} ELSE {})
    \cup {Reply(FALSE, NoScreen, "error: pantallas")}
    \cup (IF id \in DOMAIN pantallas THEN {} ELSE {Reply(FALSE, NoScreen, "")})

\* a lookup that answers a missing or failed read with an empty screen
lookupScreen_swallow(reply) ==
    IF reply.error # "" \/ ~reply.hasData
    THEN [threw |-> FALSE, error |-> "", screen |-> NoScreen]
    ELSE [threw |-> FALSE, error |-> "", screen |-> reply.data]

\* getScreenData followed by the check of generateScreenReport:
\* if (error) throw error; if (!screen) throw new Error('Pantalla no encontrada')
lookupScreen(reply) ==
    IF reply.error # "" THEN [threw |-> TRUE, error |-> reply.error, screen |-> NoScreen]
    ELSE IF ~reply.hasData
         THEN [threw |-> TRUE, error |-> "Pantalla no encontrada", screen |-> NoScreen]
    ELSE [threw |-> FALSE, error |-> "", screen |-> reply.data]

Matching(rows, id) == SelectSeq(rows, LAMBDA r : r.pantalla_id = id)

IsPermutation(a, b) ==
    /\ Len(a) = Len(b)
    /\ \E f \in [1..Len(a) -> 1..Len(a)] :
         /\ \A i, j \in 1..Len(a) : i # j => f[i] # f[j]
         /\ \A i \in 1..Len(a) : a[i] = b[f[i]]

\* .eq('pantalla_id', id).order('fecha', { ascending: false }): the matching
\* rows newest first, rows of one date in any order
MaintReplies(id) ==
    LET rows == Matching(mantenimientos, id)
    IN  {ms \in [1..Len(rows) -> {rows[i] : i \in 1..Len(rows)}] :
            IsPermutation(ms, rows) /\ IsSortedDesc(ms)}

\* generatePDF: a simulated location built from Date.now()
generatePDF(pdfData, today) == [url |-> "https://your-pdf-service.com/report-", at |-> today]

ReportFrame == UNCHANGED <<pantallas, mantenimientos, gastos, clientUp, sv, args, call>>

Fail(error) == [rep EXCEPT !.pc = "failed", !.error = error]

\* the caller invokes generateScreenReport(screenId); without a client the
\* first query throws before anything is sent
RG_Start ==
    /\ rep.pc = "idle"
    /\ \E id \in {1, 2} :
         rep' = IF clientUp
                THEN [rep EXCEPT !.pc = "awaitScreen", !.screenId = id,
                                 !.invoked = {"getScreenData"}]
                ELSE [rep EXCEPT !.pc = "failed", !.screenId = id,
                                 !.invoked = {"getScreenData"}, !.lookup = "error",
                                 !.error = "TypeError: supabaseClient"]
    /\ UNCHANGED now
    /\ ReportFrame

\* the asset lookup replies
RG_ScreenReply ==
    /\ rep.pc = "awaitScreen"
    /\ \E reply \in ScreenReplies(rep.screenId) :
         LET r == lookupScreen(reply)
             replied == IF reply.error # "" THEN "error"
                        ELSE IF reply.hasData THEN "row" ELSE "none"
         IN  rep' = IF r.threw
                    THEN [Fail(r.error) EXCEPT !.lookup = replied]
                    ELSE [rep EXCEPT !.pc = "awaitMaint", !.lookup = replied,
                                     !.screen = r.screen,
                                     !.invoked = @ \cup {"getScreenMaintenances"}]
    /\ UNCHANGED now
    /\ ReportFrame

\* the maintenance fetch replies
RG_MaintReply ==
    /\ rep.pc = "awaitMaint"
    /\ \/ \E ms \in MaintReplies(rep.screenId) :
            rep' = [rep EXCEPT !.pc = "awaitExp", !.maintenances = ms,
                               !.invoked = @ \cup {"getScreenExpenses"}]
       \/ rep' = Fail("error: mantenimientos")
    /\ UNCHANGED now
    /\ ReportFrame

\* the expense fetch replies; on success the rest of the request runs
\* without suspending on anything external: createPDFData, generatePDF,
\* calculateStats and the return
RG_ExpenseReply ==
    /\ rep.pc = "awaitExp"
    /\ \/ \E t \in LaterInstants :
            LET expenses == Matching(gastos, rep.screenId)
                pdfData == createPDFData(rep.screen, rep.maintenances, expenses, t)
                assembled == [rep EXCEPT !.expenses = expenses,
                                         !.invoked = @ \cup {"createPDFData"}]
            IN  /\ now' = t
                /\ rep' = IF pdfData.threw # ""
                          THEN [assembled EXCEPT !.pc = "failed",
                                   !.error = "TypeError: this.generateRevenueTrendData is not a function"]
                          ELSE [assembled EXCEPT !.pc = "done",
                                   !.invoked = @ \cup {"generatePDF"},
                                   !.renders = @ + 1,
                                   !.result = [success |-> TRUE,
                                               pdfUrl |-> generatePDF(pdfData.doc, t),
                                               stats |-> calculateStats(rep.screen,
                                                            rep.maintenances, expenses, t)]]
       \/ /\ rep' = Fail("error: gastos_mensuales")
          /\ UNCHANGED now
    /\ ReportFrame

\* the caller has seen the outcome and may ask again
RG_Again ==
    /\ rep.pc \in {"done", "failed"}
    /\ rep' = RepIdle
    /\ UNCHANGED now
    /\ ReportFrame

ReportScreens ==
    {ScreenRow(1, r, e, DefaultBlob, roi, DefaultUptime, 0) :
        r \in {0, 10}, e \in {0, 6}, roi \in {Int2R(0), Int2R(30)}}

InitReport ==
    /\ pantallas \in {<< >>} \cup {[i \in {1} |-> s] : s \in ReportScreens}
    /\ mantenimientos \in MaintLists
    /\ gastos \in ExpenseLists
    /\ now = 0
    /\ clientUp \in BOOLEAN
    /\ rep = RepIdle
    /\ sv = << >>
    /\ args = NoArgs
    /\ call = NoCall

NextReport ==
    \/ RG_Start
    \/ RG_ScreenReply
    \/ RG_MaintReply
    \/ RG_ExpenseReply
    \/ RG_Again

SpecReport == InitReport /\ [][NextReport]_vars

\* ----------------------------------------------- saveMaintenanceToDB
Procs == {1, 2}

\* what a caller passes as maintenanceData; fecha = 0 - 1 is an omitted date
MaintenanceData(horas, tecnico, materiales, servicios, distancia, fecha) ==
    [pantalla_id |-> 1, fecha |-> fecha, tipo |-> "preventivo", horas |-> horas,
     tipo_tecnico |-> tecnico, materiales |-> materiales,
     servicios_adicionales |-> servicios, distancia_traslado |-> distancia]

SaveInputs ==
    {MaintenanceData(1, "", << >>, << >>, 0, 0 - 1),
     MaintenanceData(2, "ingeniero", <<Material("modulo_led", TRUE, 2)>>, <<"traslado">>, 51, 0),
     MaintenanceData(24, "pasante",
                     <<Material("tornillo", TRUE, 3), Material("ventilador", FALSE, 0)>>,
                     <<"limpieza">>, 50, 0)}

NoData == MaintenanceData(0, "", << >>, << >>, 0, 0)

NoBreakdown == calculateMaintenanceCost(NoCostData)

NoRow == MaintRow(0, 0, "", 0, 0, 0)

\* inserted: the insert succeeded; read: what the re-read of the asset gave
\* ("row", "none", "reject"); writes: updates of pantallas issued; applied:
\* 0 until the store applies the update, then its place in the order in
\* which the store applied the updates of the requests at hand
SvIdle ==
    [pc |-> "idle", data |-> NoData, costBreakdown |-> NoBreakdown, record |-> NoRow,
     inserted |-> FALSE, reads |-> 0, read |-> "", screen |-> NoScreen,
     writes |-> 0, newROI |-> Int2R(0), stamp |-> 0, roiError |-> FALSE, applied |-> 0,
     error |-> "", result |-> [success |-> FALSE, data |-> NoRow, costBreakdown |-> NoBreakdown]]

\* what a numeric column holds once the record is serialised: NaN becomes
\* null and a function-valued property is dropped (null reads as 0)
NumberColumn(x) == IF x.t = "num" THEN x.v ELSE 0

\* the maintenanceRecord of saveMaintenanceToDB
maintenanceRecord(d, cb, today) ==
    FullMaintRow(d.pantalla_id, IF d.fecha < 0 THEN today ELSE d.fecha, d.tipo, d.horas,
                 d.tipo_tecnico, d.materiales, d.servicios_adicionales, d.distancia_traslado,
                 NumberColumn(cb.laborCost), NumberColumn(cb.materialsCost),
                 NumberColumn(JSAdd(cb.additionalCosts, cb.travelCost)),
                 NumberColumn(cb.totalCost), NumberColumn(cb.hourlyRate), today, 0)

\* a new ROI that leaves the cost of the event out
adjustedROI_capexOnly(capex, maintenanceCost, monthlyProfit) ==
    Quot(capex, monthlyProfit)

\* (capex + maintenanceCost) / monthlyProfit; a sum that is not a number
\* divides to NaN
adjustedROI(capex, maintenanceCost, monthlyProfit) ==
    LET adjusted == JSAdd(JNum(capex), maintenanceCost)
    IN  IF adjusted.t = "num" THEN Quot(adjusted.v, monthlyProfit) ELSE Quot(0, 0)

\* the profit guard taken as monthlyProfit < 0
newScreenROI_zeroProfit(screen, maintenanceCost) ==
    LET capex == calculateCapexTotal(screen)
        monthlyProfit == monthlyProfitOf(screen)
    IN  IF monthlyProfit < 0
        THEN [write |-> FALSE, roi |-> Int2R(0)]
        ELSE [write |-> TRUE, roi |-> adjustedROI(capex, maintenanceCost, monthlyProfit)]

\* updateScreenROI between the re-read and the update: whether it goes on
\* to write, and the value
newScreenROI(screen, maintenanceCost) ==
    LET capex == calculateCapexTotal(screen)
        monthlyProfit == monthlyProfitOf(screen)
    IN  IF monthlyProfit <= 0
        THEN [write |-> FALSE, roi |-> Int2R(0)]
        ELSE [write |-> TRUE, roi |-> adjustedROI(capex, maintenanceCost, monthlyProfit)]

\* the return of saveMaintenanceToDB once updateScreenROI has returned
saveReturn(s) ==
    [s EXCEPT !.pc = "done",
              !.result = [success |-> TRUE, data |-> s.record,
                          costBreakdown |-> s.costBreakdown]]

\* a catch that rethrows to saveMaintenanceToDB
roiCatch_rethrow(s) ==
    [s EXCEPT !.pc = "failed", !.roiError = TRUE, !.error = "error: pantallas"]

\* the catch of updateScreenROI: the error is logged and the method returns
roiCatch(s) == saveReturn([s EXCEPT !.roiError = TRUE])

SaveFrame == UNCHANGED <<gastos, clientUp, rep, args, call>>

InFlight == Cardinality({q \in Procs : sv[q].pc = "awaitInsert"})

\* caller p invokes saveMaintenanceToDB(data)
SV_Start(p) ==
    /\ sv[p].pc = "idle"
    /\ Len(mantenimientos) + InFlight < MaxMaint
    /\ \E d \in SaveInputs :
         LET cb == calculateMaintenanceCost(
                       CostData(d.horas, d.tipo_tecnico, d.materiales,
                                d.servicios_adicionales, d.distancia_traslado))
         IN  sv' = [sv EXCEPT ![p] =
                      IF ~clientUp
                      THEN [@ EXCEPT !.pc = "failed", !.data = d,
                                     !.error = "Supabase no esta inicializado"]
                      ELSE [@ EXCEPT !.pc = "awaitInsert", !.data = d,
                                     !.costBreakdown = cb,
                                     !.record = maintenanceRecord(d, cb, now)]]
    /\ UNCHANGED <<pantallas, mantenimientos, now>>
    /\ SaveFrame

\* the insert replies; on success updateScreenROI sends its re-read
SV_InsertReply(p) ==
    /\ sv[p].pc = "awaitInsert"
    /\ \/ /\ mantenimientos' = Append(mantenimientos, sv[p].record)
          /\ sv' = [sv EXCEPT ![p] = [@ EXCEPT !.pc = "awaitRead", !.inserted = TRUE,
                                               !.reads = @ + 1]]
       \/ /\ sv' = [sv EXCEPT ![p] = [@ EXCEPT !.pc = "failed",
                                               !.error = "error: mantenimientos"]]
          /\ UNCHANGED mantenimientos
    /\ UNCHANGED <<pantallas, now>>
    /\ SaveFrame

\* the re-read of the asset replies: the row, no data (no such row, or an
\* error reply, which the destructuring drops), or the call rejects
SV_ReadReply(p) ==
    /\ sv[p].pc = "awaitRead"
    /\ \/ /\ sv[p].data.pantalla_id \in DOMAIN pantallas
          /\ LET screen == pantallas[sv[p].data.pantalla_id]
                 r == newScreenROI(screen, sv[p].costBreakdown.totalCost)
                 seen == [sv[p] EXCEPT !.read = "row", !.screen = screen]
             IN  sv' = [sv EXCEPT ![p] =
                          IF r.write
                          THEN [seen EXCEPT !.pc = "awaitUpdate", !.writes = @ + 1,
                                            !.newROI = r.roi, !.stamp = now]
                          ELSE saveReturn(seen)]
       \/ sv' = [sv EXCEPT ![p] = saveReturn([@ EXCEPT !.read = "none"])]
       \/ sv' = [sv EXCEPT ![p] = roiCatch([@ EXCEPT !.read = "reject"])]
    /\ UNCHANGED <<pantallas, mantenimientos, now>>
    /\ SaveFrame

\* the place of the update the store applied last
LastApplied == CHOOSE n \in {sv[q].applied : q \in Procs} : \A q \in Procs : sv[q].applied <= n

\* the update of the asset replies: applied, or an error reply (ignored),
\* or the call rejects (caught)
SV_UpdateReply(p) ==
    /\ sv[p].pc = "awaitUpdate"
    /\ \/ /\ sv[p].data.pantalla_id \in DOMAIN pantallas
          /\ pantallas' = [pantallas EXCEPT ![sv[p].data.pantalla_id] =
                              [@ EXCEPT !.roi = sv[p].newROI, !.updated_at = sv[p].stamp]]
          /\ sv' = [sv EXCEPT ![p] = saveReturn([@ EXCEPT !.applied = LastApplied + 1])]
       \/ /\ sv' = [sv EXCEPT ![p] = saveReturn(@)]
          /\ UNCHANGED pantallas
       \/ /\ sv' = [sv EXCEPT ![p] = roiCatch(@)]
          /\ UNCHANGED pantallas
    /\ UNCHANGED <<mantenimientos, now>>
    /\ SaveFrame

\* the caller has seen the outcome and may save another event
SV_Again(p) ==
    /\ sv[p].pc \in {"done", "failed"}
    /\ sv' = [sv EXCEPT ![p] = SvIdle]
    /\ UNCHANGED <<pantallas, mantenimientos, now>>
    /\ SaveFrame

\* a day passes
Tick ==
    /\ now < MaxDay
    /\ now' = now + 1
    /\ UNCHANGED <<pantallas, mantenimientos, sv>>
    /\ SaveFrame

SaveScreens ==
    {ScreenRow(1, r, 6, b, Int2R(24), DefaultUptime, 0) :
        r \in {4, 6, 10}, b \in {DefaultBlob, BlobMalformed}}

InitSave ==
    /\ pantallas \in {<< >>} \cup {[i \in {1} |-> s] : s \in SaveScreens}
    /\ mantenimientos = << >>
    /\ gastos = << >>
    /\ now = 0
    /\ clientUp \in BOOLEAN
    /\ rep = RepIdle
    /\ sv = [p \in Procs |-> SvIdle]
    /\ args = NoArgs
    /\ call = NoCall

NextSave ==
    \/ \E p \in Procs : SV_Start(p)
    \/ \E p \in Procs : SV_InsertReply(p)
    \/ \E p \in Procs : SV_ReadReply(p)
    \/ \E p \in Procs : SV_UpdateReply(p)
    \/ \E p \in Procs : SV_Again(p)
    \/ Tick

SpecSave == InitSave /\ [][NextSave]_vars

\* ------------------ summary statistics of an asset whose events were saved
\* One caller saves events for asset 1, one request at a time, and the page
\* computes the statistics from the asset and the rows the store returns.
DaysCaller == 1

InitDays ==
    /\ pantallas = [i \in {1} |-> ScreenRow(1, 10, 6, DefaultBlob, Int2R(24), DefaultUptime, 0)]
    /\ mantenimientos = << >>
    /\ gastos = << >>
    /\ now = 0
    /\ clientUp = TRUE
    /\ rep = RepIdle
    /\ sv = [p \in Procs |-> SvIdle]
    /\ args = NoArgs
    /\ call = NoCall

\* calculateStats(screen, maintenances, []) on the asset and its events as
\* the store returns them
CallStatsOnStore ==
    /\ 1 \in DOMAIN pantallas
    /\ \E ms \in MaintReplies(1) :
         /\ args' = [NoArgs EXCEPT !.kind = "store", !.screen = pantallas[1],
                                   !.maintenances = ms]
         /\ call' = Call("calculateStats", now, calculateStats(pantallas[1], ms, << >>, now))
    /\ UNCHANGED <<pantallas, mantenimientos, gastos, now, clientUp, rep, sv>>

NextDays ==
    \/ SV_Start(DaysCaller)
    \/ SV_InsertReply(DaysCaller)
    \/ SV_ReadReply(DaysCaller)
    \/ SV_UpdateReply(DaysCaller)
    \/ SV_Again(DaysCaller)
    \/ Tick
    \/ CallStatsOnStore

SpecDays == InitDays /\ [][NextDays]_vars

\* ------------------------------------------------------------------ claims
\* What the claims say about a capex blob, stated from the blob alone.
NumericCoercible(jv) == jv.t \in {"num", "str", "bool", "null"}

CategoryValue(blob, k) ==
    IF k \in DOMAIN blob.obj /\ NumericCoercible(blob.obj[k]) THEN blob.obj[k].v ELSE 0

ExpectedCapexTotal(blob) ==
    IF blob.kind \in {"absent", "malformed"} THEN 0
    ELSE CategoryValue(blob, "screen") + CategoryValue(blob, "installation")
         + CategoryValue(blob, "extra")

\* tenths / 10 is the one-decimal rendering of n / d (d > 0)
IsOneDecimalOf(tenths, n, d) == 2 * Abs(tenths * d - 10 * n) <= d

\* C3: generateRecommendations returns one entry per triggered rule among
\* (cached ROI > 24), (a first maintenance exists and its month distance to
\* today is > 3), (uptime < 95), in that order; the low-priority fallback is
\* present exactly when no rule triggered and is then the only entry, so the
\* list is never empty.
C3_Triggered ==
    LET s == args.screen
        t1 == s.roi[1] > 24 * s.roi[2]
        t2 == /\ args.maintenances # << >>
              /\ MonthIndex(call.today) - MonthIndex(args.maintenances[1].fecha) > 3
        t3 == (IF s.uptime.numeric THEN s.uptime.num ELSE 0) < 95
    IN  (IF t1 THEN <<"Optimizar Rentabilidad">> ELSE << >>)
        \o (IF t2 THEN <<"Programar Mantenimiento Preventivo">> ELSE << >>)
        \o (IF t3 THEN <<"Mejorar Disponibilidad">> ELSE << >>)

C3_Recommendations ==
    call.fn = "generateRecommendations" =>
        LET titles == [i \in 1..Len(call.res) |-> call.res[i].title]
        IN  /\ Len(call.res) >= 1
            /\ IF C3_Triggered = << >>
               THEN /\ titles = <<"Mantener Estrategia Actual">>
                    /\ call.res[1].priority = "Baja"
               ELSE titles = C3_Triggered

C3_Witness ==
    /\ call.fn = "generateRecommendations"
    /\ Len(call.res) = 3
    /\ Len(C3_Triggered) = 3

\* C4: generateROIAnalysis reports 'not profitable' with roiMonths infinite
\* and roiPercentage 0% whenever monthlyProfit <= 0 or capex <= 0; otherwise
\* roiMonths is capex / monthlyProfit and roiPercentage is
\* monthlyProfit / capex * 1200 (both printed with one decimal), and the
\* recommendation is 'excellent investment' exactly when roiMonths <= 24.
C4_ROIAnalysis ==
    call.fn = "generateROIAnalysis" =>
        LET capex == ExpectedCapexTotal(args.screen.capex_data)
            profit == args.screen.ingresos_mensuales - args.screen.gastos_mensuales
            r == call.res
        IN  IF profit <= 0 \/ capex <= 0
            THEN /\ r.recommendation = "Pantalla no rentable"
                 /\ r.roiMonths.txt = "inf"
                 /\ r.roiPercentage.txt = "0%"
            ELSE /\ r.roiMonths.txt = "fixed"
                 /\ IsOneDecimalOf(r.roiMonths.tenths, capex, profit)
                 /\ r.roiPercentage.txt = "fixed%"
                 /\ IsOneDecimalOf(r.roiPercentage.tenths, 1200 * profit, capex)
                 /\ (r.recommendation = "Excelente inversion") = (capex <= 24 * profit)
                 /\ r.recommendation \in {"Excelente inversion", "Evaluar mejora de rentabilidad"}

C4_Witness ==
    /\ call.fn = "generateROIAnalysis"
    /\ args.screen.ingresos_mensuales - args.screen.gastos_mensuales = 4
    /\ ExpectedCapexTotal(args.screen.capex_data) = 96
    /\ call.res.roiMonths.tenths = 240
    /\ call.res.recommendation = "Excelente inversion"

\* C5: calculateROIImpact follows the policy of the standalone ROI: when
\* monthlyProfit <= 0 or capex <= 0 it never gives a favourable rating, and
\* otherwise roiAfter is (capex + maintenanceCost) / monthlyProfit and
\* roiBefore is capex / monthlyProfit.
FavourableRatings ==
    {"Excelente - Mantenimiento altamente rentable", "Bueno - Impacto positivo en ROI",
     "Aceptable - Dentro de parametros esperados"}

C5_ROIImpactPolicy ==
    call.fn = "calculateROIImpact" =>
        LET capex == ExpectedCapexTotal(args.screen.capex_data)
            profit == args.screen.ingresos_mensuales - args.screen.gastos_mensuales
            r == call.res
        IN  IF profit <= 0 \/ capex <= 0
            THEN r.recommendation \notin FavourableRatings
            ELSE /\ IsOneDecimalOf(r.roiAfter.tenths, capex + args.cost, profit)
                 /\ IsOneDecimalOf(r.roiBefore.tenths, capex, profit)

\* C8: the capex total is 0 for a missing, empty or malformed blob and
\* otherwise the sum of the numeric-coercible category values, other entries
\* counting as 0; calculateCapexTotal and calculateCapex(...).total agree.
C8_CapexTotal ==
    /\ call.fn = "calculateCapexTotal" =>
           call.res = ExpectedCapexTotal(args.screen.capex_data)
    /\ call.fn = "calculateCapex" =>
           call.res.total = ExpectedCapexTotal(args.screen.capex_data)

C8_Witness ==
    /\ call.fn = "calculateCapexTotal"
    /\ args.screen.capex_data.kind = "object"
    /\ DOMAIN args.screen.capex_data.obj = CapexKeys
    /\ args.screen.capex_data.obj["screen"] = JTxt
    /\ args.screen.capex_data.obj["installation"] = JStr(4)
    /\ args.screen.capex_data.obj["extra"] = JNum(96)
    /\ call.res = 100

\* C9: every profit margin the Assembler reports is
\* (revenue - expense) / revenue * 100 and is 0 when revenue = 0, in
\* calculateStats and in the executive summary alike.
ExpectedMarginTenths(tenths, screen) ==
    IF screen.ingresos_mensuales = 0 THEN tenths = 0
    ELSE IsOneDecimalOf(tenths,
                        (screen.ingresos_mensuales - screen.gastos_mensuales) * 100,
                        screen.ingresos_mensuales)

C9_ProfitMargin ==
    /\ call.fn = "calculateStats" =>
           ExpectedMarginTenths(call.res.profitMargin.tenths, args.screen)
    /\ call.fn = "createPDFData" =>
           ExpectedMarginTenths(call.res.doc.executiveSummary.profitMargin.tenths, args.screen)

\* C1: generateScreenReport returns a success result with a complete
\* document if and only if the asset lookup, the maintenance fetch, the
\* expense fetch and the renderer all succeed; createPDFData itself never
\* fails for an existing asset whose history fetches succeeded.
C1_SuccessIffAllSucceed ==
    rep.pc \in {"done", "failed"} =>
        (rep.result.success <=>
            /\ rep.lookup = "row"
            /\ rep.error \notin {"error: mantenimientos", "error: gastos_mensuales",
                                 "error: renderer"})

\* C2: when the asset lookup reports not-found or fails, the request fails
\* with that error and no later step runs (no maintenance fetch, expense
\* fetch, assembly or rendering); the renderer runs at most once per request
\* and only after the three fetches succeeded.
C2_NotFoundStopsRequest ==
    /\ rep.lookup \in {"error", "none"} =>
           /\ rep.pc = "failed"
           /\ rep.error \in {"Pantalla no encontrada", "error: pantallas",
                             "TypeError: supabaseClient"}
           /\ rep.invoked = {"getScreenData"}
           /\ rep.renders = 0
           /\ ~rep.result.success
    /\ rep.renders <= 1
    /\ rep.renders = 1 =>
           /\ rep.lookup = "row"
           /\ {"getScreenData", "getScreenMaintenances", "getScreenExpenses"}
                  \subseteq rep.invoked

C2_Witness ==
    /\ rep.lookup = "none"
    /\ rep.pc = "failed"
    /\ rep.error = "Pantalla no encontrada"
    /\ rep.screenId \notin DOMAIN pantallas

\* C6: updateScreenROI issues a write of the cached ROI exactly when the
\* re-read asset exists and has monthlyProfit > 0, with the value
\* (capex + this event's total cost) / monthlyProfit; otherwise it issues no
\* write and raises nothing; pantallas changes only by such a write, which
\* sets roi (and updated_at) and nothing else.
C6_ReadDecidesWrite(p) ==
    LET s == sv[p]
        profit == s.screen.ingresos_mensuales - s.screen.gastos_mensuales
    IN  /\ s.writes = (IF s.read = "row" /\ profit > 0 THEN 1 ELSE 0)
        /\ s.writes = 1 =>
               s.newROI = Quot(ExpectedCapexTotal(s.screen.capex_data)
                                   + s.costBreakdown.totalCost.v, profit)
        /\ s.read # "" => s.pc # "failed"

C6_OnlyWritesChangeAsset ==
    pantallas' # pantallas =>
        \E p \in Procs :
            /\ sv[p].pc = "awaitUpdate"
            /\ sv[p].writes = 1
            /\ DOMAIN pantallas' = DOMAIN pantallas
            /\ pantallas' = [pantallas EXCEPT ![sv[p].data.pantalla_id] =
                                [@ EXCEPT !.roi = sv[p].newROI,
                                          !.updated_at = pantallas'[sv[p].data.pantalla_id].updated_at]]

C6_UpdateScreenROI ==
    /\ [](\A p \in Procs : C6_ReadDecidesWrite(p))
    /\ [][C6_OnlyWritesChangeAsset]_vars

C6_Witness ==
    \E p \in Procs :
        /\ sv[p].pc = "done"
        /\ sv[p].writes = 1
        /\ sv[p].costBreakdown.totalCost = JNum(120)
        /\ sv[p].newROI = Int2R(54)
        /\ pantallas[1].roi = Int2R(54)

\* C7: the outcome of saveMaintenanceToDB is decided by the insert alone: a
\* successful insert ends in success with the stored record and the cost
\* breakdown even when the re-read or the write-back of the ROI fails; a
\* failed insert or a missing client ends in an error, and then the asset is
\* neither read nor written for that request.
C7_InsertDecidesOutcome ==
    \A p \in Procs :
        /\ sv[p].pc = "done" =>
               /\ sv[p].inserted
               /\ sv[p].result.success
               /\ sv[p].result.data = sv[p].record
               /\ sv[p].result.costBreakdown = sv[p].costBreakdown
        /\ sv[p].pc = "failed" =>
               /\ ~sv[p].inserted
               /\ sv[p].error \in {"error: mantenimientos", "Supabase no esta inicializado"}
               /\ sv[p].reads = 0 /\ sv[p].read = ""
               /\ sv[p].writes = 0
               /\ ~sv[p].result.success
        /\ sv[p].inserted => sv[p].pc \in {"awaitRead", "awaitUpdate", "done"}
        /\ sv[p].roiError => sv[p].pc = "done"

C7_Witness ==
    \E p \in Procs :
        /\ sv[p].pc = "done"
        /\ sv[p].roiError
        /\ sv[p].writes = 1
        /\ sv[p].result.success
        /\ pantallas[1].roi = Int2R(24)

\* C10 as stated: two assemblies from identical inputs agree in every field
\* other than the header's generation date, whatever the two clock readings.
SameExceptHeaderDate(a, b) ==
    [a EXCEPT !.header.date = DateText(0)] = [b EXCEPT !.header.date = DateText(0)]

ConsecutiveAssemblies == call.fn = "createPDFData" /\ call'.fn = "createPDFData" /\ args' = args

C10_Original ==
    [][ConsecutiveAssemblies => SameExceptHeaderDate(call.res.doc, call'.res.doc)]_vars

\* C10: two assemblies from identical inputs agree in every field other than
\* the header's generation date, the projected date of the break-even block
\* and the recommendation list; the recommendation list agrees as well when
\* both clock readings fall in the same calendar month, and the break-even
\* date when they fall on the same day.
ClockFree(d) ==
    [d EXCEPT !.header.date = DateText(0),
              !.financialAnalysis.breakEvenPoint.date = 0,
              !.strategicRecommendations = << >>]

C10_ClockFieldsOnly ==
    [][ConsecutiveAssemblies =>
          /\ ClockFree(call.res.doc) = ClockFree(call'.res.doc)
          /\ MonthIndex(call.today) = MonthIndex(call'.today) =>
                 call.res.doc.strategicRecommendations
                     = call'.res.doc.strategicRecommendations
          /\ call.today = call'.today => call.res.doc = call'.res.doc]_vars

C10_Witness ==
    /\ call.fn = "createPDFData"
    /\ call.today = 4 * DaysPerMonth + 1
    /\ args.maintenances # << >>
    /\ args.maintenances[1].fecha = DaysPerMonth
    /\ ~call.res.doc.financialAnalysis.breakEvenPoint.na
    /\ call.res.doc.financialAnalysis.breakEvenPoint.date > call.today
    /\ call.res.doc.strategicRecommendations[1].title = "Mantener Estrategia Actual"

\* C11: calculateBreakEven answers 'not applicable - no profit' exactly when
\* monthlyProfit <= 0; otherwise months is the ceiling of capex / monthlyProfit
\* (the least whole number of months whose profit covers capex) and the
\* status is 'optimal' when months <= 24 and 'extended' otherwise; and
\* whenever the ROI analysis of the same asset is defined (monthlyProfit > 0
\* and capex > 0) the status is 'optimal' exactly when the ROI
\* recommendation is 'excellent investment'.
C11_BreakEven ==
    call.fn = "calculateBreakEven" =>
        LET capex == ExpectedCapexTotal(args.screen.capex_data)
            profit == args.screen.ingresos_mensuales - args.screen.gastos_mensuales
            r == call.res
            analysis == generateROIAnalysis(args.screen)
        IN  /\ r.na = (profit <= 0)
            /\ r.na => r.status = "No aplica - Sin ganancias"
            /\ ~r.na =>
                 /\ r.months * profit >= capex
                 /\ (r.months - 1) * profit < capex
                 /\ r.status = IF r.months <= 24 THEN "Optimo" ELSE "Extendido"
            /\ (profit > 0 /\ capex > 0) =>
                 /\ analysis.recommendation # "Pantalla no rentable"
                 /\ (r.status = "Optimo") = (analysis.recommendation = "Excelente inversion")

\* a fractional quotient just above the threshold: 97 / 4 = 24.25 gives 25
\* months, 'extended', and the ROI analysis does not say 'excellent'
C11_Witness ==
    /\ call.fn = "calculateBreakEven"
    /\ args.screen.ingresos_mensuales - args.screen.gastos_mensuales = 4
    /\ ExpectedCapexTotal(args.screen.capex_data) = 97
    /\ call.res.months = 25
    /\ call.res.status = "Extendido"
    /\ generateROIAnalysis(args.screen).recommendation = "Evaluar mejora de rentabilidad"

\* C12: in calculateMaintenanceCost the travel cost is 0 for a distance
\* <= 0 and, for a distance > 0, the relocation fee (150) once per started
\* block of 50: k fees for 50 * (k - 1) < distance <= 50 * k; the reported
\* travelCost is that value, and the totalCost is the total of the same work
\* without travel plus that value.
C12_TravelCost ==
    call.fn = "calculateMaintenanceCost" =>
        LET d == args.data.travelDistance
            r == call.res
            noTravel == calculateMaintenanceCost([args.data EXCEPT !.travelDistance = 0])
        IN  /\ r.travelCost.t = "num"
            /\ d <= 0 => r.travelCost.v = 0
            /\ d > 0 => \E k \in 1..d : /\ 50 * (k - 1) < d
                                        /\ d <= 50 * k
                                        /\ r.travelCost.v = k * 150
            /\ noTravel.travelCost = JNum(0)
            /\ r.totalCost = JSAdd(noTravel.totalCost, r.travelCost)
            /\ r.totalCost.t = "num" => r.totalCost.v = noTravel.totalCost.v + r.travelCost.v

\* 51 km is two fees, and they are part of the total
C12_Witness ==
    /\ call.fn = "calculateMaintenanceCost"
    /\ args.data.travelDistance = 51
    /\ args.data.hours = 2 /\ args.data.technicianType = "ingeniero"
    /\ args.data.materials = << >> /\ args.data.additionalServices = << >>
    /\ call.res.travelCost = JNum(300)
    /\ call.res.totalCost = JNum(800)

\* the input with every key that is not in its cost table taken out: the
\* category replaced by the regular technician, the materials and services
\* of unknown kinds removed
OnlyCatalogKeys(d) ==
    [d EXCEPT !.technicianType = IF @ \in DOMAIN hourlyRates THEN @ ELSE "tecnico_regular",
              !.materials = SelectSeq(@, LAMBDA m : m.type \in DOMAIN materialCosts),
              !.additionalServices = SelectSeq(@, LAMBDA x : x \in DOMAIN additionalCosts)]

\* C13: calculateMaintenanceCost treats every key that is not in its cost
\* table as unknown: for a technician category not in the rate table (or
\* omitted) the labor cost is hours times 120 and 120 is the reported hourly
\* rate; materials and additional services of kinds not in their tables
\* contribute 0, so the materials cost, the additional costs and the total
\* are those of the same input without them.
C13_UnknownKeysFallBack ==
    call.fn = "calculateMaintenanceCost" =>
        LET d == args.data
            r == call.res
            known == calculateMaintenanceCost(OnlyCatalogKeys(d))
        IN  /\ d.technicianType \notin DOMAIN hourlyRates =>
                 /\ r.hourlyRate = JNum(120)
                 /\ r.laborCost = JNum(d.hours * 120)
            /\ r.materialsCost = known.materialsCost
            /\ r.additionalCosts = known.additionalCosts
            /\ r.totalCost = known.totalCost

\* what the claim says a material adds: nothing for a kind outside the cost
\* table, else the unit cost times the supplied quantity, or times 1 when
\* no quantity is supplied
RECURSIVE ExpectedMaterialsCost(_)
ExpectedMaterialsCost(materials) ==
    IF materials = << >> THEN 0
    ELSE LET m == Head(materials)
         IN  (IF m.type \in DOMAIN materialCosts
              THEN materialCosts[m.type] * (IF m.given THEN m.quantity ELSE 1)
              ELSE 0)
             + ExpectedMaterialsCost(Tail(materials))

NoInheritedKind(materials) ==
    \A i \in DOMAIN materials : materials[i].type \notin InheritedKeys

\* C14: in calculateMaintenanceCost each material of a known kind adds its
\* unit cost times its supplied quantity, for every supplied quantity >= 0
\* (a supplied 0 adds 0), and times 1 only when the quantity is omitted; the
\* totalCost is laborCost + materialsCost + additionalCosts + travelCost.
C14_QuantityTimesUnitCost ==
    call.fn = "calculateMaintenanceCost" =>
        LET d == args.data
            r == call.res
        IN  /\ NoInheritedKind(d.materials) =>
                 r.materialsCost = JNum(ExpectedMaterialsCost(d.materials))
            /\ r.totalCost = JSAdd(JSAdd(JSAdd(r.laborCost, r.materialsCost),
                                         r.additionalCosts), r.travelCost)
            /\ r.totalCost.t = "num" =>
                 r.totalCost.v = r.laborCost.v + r.materialsCost.v
                                 + r.additionalCosts.v + r.travelCost.v

\* every request at hand has completed with its insert, its re-read of the
\* asset and its update of the asset all succeeding
AllSucceeded ==
    \A p \in Procs :
        /\ sv[p].pc = "done"
        /\ sv[p].inserted
        /\ sv[p].read = "row"
        /\ sv[p].applied > 0

CachedROIFor(cost) ==
    Quot(ExpectedCapexTotal(pantallas[1].capex_data) + cost,
         pantallas[1].ingresos_mensuales - pantallas[1].gastos_mensuales)

\* C15 as stated: once all the saveMaintenanceToDB calls for the asset have
\* completed, whatever the interleaving of their steps, the cached ROI is
\* (capex + total cost of the event inserted last) / monthlyProfit.
C15_Original ==
    AllSucceeded =>
        pantallas[1].roi = CachedROIFor(mantenimientos[Len(mantenimientos)].costo_total)

\* C15: once all the saveMaintenanceToDB calls for the asset (monthlyProfit
\* > 0, all store calls succeeding) have completed, under any interleaving
\* of their steps, the cached ROI is (capex + total cost of the event whose
\* update of the asset the store applied last) / monthlyProfit.
C15_LastAppliedUpdate ==
    AllSucceeded =>
        \E p \in Procs :
            /\ sv[p].applied = LastApplied
            /\ pantallas[1].roi = CachedROIFor(sv[p].costBreakdown.totalCost.v)

\* two overlapping calls: the event inserted last costs 1450, the update
\* applied last belongs to the event that costs 120
C15_Witness ==
    /\ AllSucceeded
    /\ mantenimientos[Len(mantenimientos)].costo_total = 1450
    /\ \E p \in Procs :
         /\ sv[p].applied = LastApplied
         /\ sv[p].costBreakdown.totalCost = JNum(120)
         /\ pantallas[1].roi = CachedROIFor(120)
         /\ pantallas[1].roi # CachedROIFor(1450)

\* C16: for an asset whose maintenance events were all created through
\* saveMaintenanceToDB, the statistics computed afterwards report daysOnline
\* = floor(days since the install date - (sum of the labor hours of the
\* events) / 24): an event of 24 hours lowers daysOnline by one.
C16_HoursSubtracted ==
    (call.fn = "calculateStats" /\ args.kind = "store") =>
        LET days == call.today - args.screen.fecha_instalacion
            hours == SumField(args.maintenances, "horas")
        IN  call.res.daysOnline = (24 * days - hours) \div 24
====
